---- MODULE Spec2Model ----
(***************************************************************************)
(* The MOF-Scientist workflow graph (app/graph.py) and its four nodes:     *)
(* analyzer (planner), supervisor (reviewer), runner and reporter, run by  *)
(* the graph runtime over the channels of AgentState.                      *)
(***************************************************************************)
EXTENDS Integers, Sequences, FiniteSets, TLC

\* ------------------------------------------------------------------ bounds
MaxPlanLen == 2        \* longest plan the planning model returns
MaxOutputs == 2        \* longest tool_outputs the resolver is applied to
LongPlanLen == 12      \* steps of the long plan the Runner is run over
MaxQueryLen == 3       \* longest query text given to the database search

\* --------------------------------------------------------- program constants
RecursionLimit == 25   \* supersteps the graph runtime allows per run
RejectionCeiling == 3  \* "if rejection_count >= 3"

\* AgentState's annotated keys: the channels of StateGraph(AgentState).
StateKeys ==
    {"messages", "original_query", "plan", "current_step", "tool_outputs",
     "review_feedback", "is_plan_approved"}

\* Tool names the planner is told about and _prepare_tool_args has a rule for.
KnownTools ==
    {"search_mofs", "parse_structure", "optimize_geometry", "static_calculation"}

\* Tool names the Reviewer's prompt lists as available.
ReviewerTools == {"search_mof_db", "optimize_structure_ase", "calculate_energy_force"}

\* Tool names _prepare_tool_args has a branch for.
ResolverTools ==
    {"search_mofs", "parse_structure", "optimize_geometry", "static_calculation"}

\* Names the resolver is asked about: the known ones and one it has no rule
\* for.
ToolNames == KnownTools \cup {"md_simulation"}

\* Names the planning model puts in a plan: a step that needs no earlier
\* result, a step that needs one, and a name outside the known tools.
PlanTools == {"search_mofs", "optimize_geometry", "md_simulation"}

\* dict.get(key, default)
Get(d, k, default) == IF k \in DOMAIN d THEN d[k] ELSE default

\* ----------------------------------------------------------- key strings
\* Strings are sequences of code points, so that sorted() compares them as
\* Python does.
Chars(t) ==
    CASE t = "step_" -> <<115, 116, 101, 112, 95>>
      [] t = "_" -> <<95>>
      [] t = "search_mofs" -> <<115, 101, 97, 114, 99, 104, 95, 109, 111, 102, 115>>
      [] t = "parse_structure" ->
            <<112, 97, 114, 115, 101, 95, 115, 116, 114, 117, 99, 116, 117, 114, 101>>
      [] t = "optimize_geometry" ->
            <<111, 112, 116, 105, 109, 105, 122, 101, 95, 103, 101, 111, 109, 101,
              116, 114, 121>>
      [] t = "static_calculation" ->
            <<115, 116, 97, 116, 105, 99, 95, 99, 97, 108, 99, 117, 108, 97, 116,
              105, 111, 110>>
      [] t = "md_simulation" ->
            <<109, 100, 95, 115, 105, 109, 117, 108, 97, 116, 105, 111, 110>>

\* str(i) for i >= 0
RECURSIVE Digits(_)
Digits(i) == IF i < 10 THEN <<48 + i>> ELSE Digits(i \div 10) \o <<48 + (i % 10)>>

\* Mutant of StepKey: the key leaves out the step index.
StepKeyNoIndex(i, t) == Chars("step_") \o Chars(t)

\* f"step_{current_step}_{tool_name}"
StepKey(i, t) == Chars("step_") \o Digits(i) \o Chars("_") \o Chars(t)

\* a < b for two strings
RECURSIVE StrLess(_, _)
StrLess(a, b) ==
    IF b = <<>> THEN FALSE
    ELSE IF a = <<>> THEN TRUE
    ELSE IF Head(a) # Head(b) THEN Head(a) < Head(b)
    ELSE StrLess(Tail(a), Tail(b))

\* sorted(keys)
RECURSIVE SortedKeys(_)
SortedKeys(S) ==
    IF S = {} THEN <<>>
    ELSE LET m == CHOOSE x \in S : \A y \in S \ {x} : StrLess(x, y)
         IN <<m>> \o SortedKeys(S \ {m})

Reverse(s) == [i \in 1..Len(s) |-> s[Len(s) + 1 - i]]

\* ------------------------------------------------------------- messages
\* A message is [id, type, content]; id 0 is "no id yet".
Msg(type, content) == [id |-> 0, type |-> type, content |-> content]

MaxId(ms) == IF ms = <<>> THEN 0
             ELSE CHOOSE n \in {ms[i].id : i \in 1..Len(ms)} :
                      \A j \in 1..Len(ms) : ms[j].id <= n

\* Only the text of the human messages and of the latest message is kept:
\* the text of an AI message is read by no node, and by the caller only when
\* it is the last one.
Elide(ms) ==
    [i \in 1..Len(ms) |->
        IF ms[i].type = "human" THEN ms[i] ELSE [ms[i] EXCEPT !.content = "..."]]

\* The reducer of the messages channel: a message whose id is already in the
\* list replaces that entry, any other is appended (with a fresh id when it
\* has none).
RECURSIVE add_messages(_, _)
add_messages(left, right) ==
    IF right = <<>> THEN left
    ELSE LET m == Head(right)
             hit == {i \in 1..Len(left) : m.id # 0 /\ left[i].id = m.id}
             merged ==
                 IF hit # {}
                 THEN [i \in 1..Len(left) |-> IF i \in hit THEN m ELSE left[i]]
                 ELSE Append(Elide(left),
                             IF m.id = 0 THEN [m EXCEPT !.id = MaxId(left) + 1]
                             ELSE m)
         IN add_messages(merged, Tail(right))

\* ------------------------------------------------------- values and outputs
\* A value a tool or the request supplied: src is the step whose result
\* carried it (-1: the request, no step), text what it says.
Val(src, text) == [src |-> src, text |-> text]
NoneVal == Val(-1, "None")
\* Python truthiness of a value (None, "" and {} are falsy).
Truthy(v) == v.text \notin {"None", ""}
\* a or b
Or(a, b) == IF Truthy(a) THEN a ELSE b

\* An entry of tool_outputs: kind "dict" with its fields d, kind "list" (a
\* non-empty list whose first element is the dict d), or "other" (a string).
Output(kind, d) == [kind |-> kind, d |-> d]
NoFields == [f \in {} |-> NoneVal]

\* Requests: one without and one with a structure path in the text.
Queries == {"copper", "relax /data/mof.cif"}

\* re.search(r"(/[^\s]+\.(?:cif|xyz|vasp|poscar|POSCAR))", text); exists is
\* what Path(candidate).exists() answers.
HasPath(text) == text = "relax /data/mof.cif"
\* The answers Path(candidate).exists() can give for a text (it is asked only
\* when the text has a path).
PathAnswers(text) == IF HasPath(text) THEN BOOLEAN ELSE {FALSE}

_extract_existing_structure_path(text, exists) ==
    IF HasPath(text)
    THEN (IF exists THEN Val(-1, "/data/mof.cif") ELSE NoneVal)
    ELSE NoneVal

\* The loop of _find_cif_filepath over keys, carrying (optimized_path,
\* original_path).
RECURSIVE CifScan(_, _, _, _)
CifScan(keys, tool_outputs, optimized_path, original_path) ==
    IF keys = <<>> THEN <<optimized_path, original_path>>
    ELSE LET output == tool_outputs[Head(keys)]
             d == output.d
             has(f) == f \in DOMAIN d
         IN IF output.kind = "list"
            THEN CifScan(Tail(keys), tool_outputs,
                         IF has("optimized_cif_filepath")
                         THEN d["optimized_cif_filepath"] ELSE optimized_path,
                         IF has("cif_filepath")
                         THEN d["cif_filepath"] ELSE original_path)
            ELSE IF output.kind = "dict"
            THEN CifScan(Tail(keys), tool_outputs,
                         IF has("optimized_cif_filepath")
                         THEN d["optimized_cif_filepath"] ELSE optimized_path,
                         IF has("cif_filepath") /\ ~Truthy(Get(d, "error", NoneVal))
                         THEN d["cif_filepath"] ELSE original_path)
            ELSE CifScan(Tail(keys), tool_outputs, optimized_path, original_path)

_find_cif_filepath(tool_outputs, prefer_optimized) ==
    LET r == CifScan(SortedKeys(DOMAIN tool_outputs), tool_outputs, NoneVal, NoneVal)
    IN IF prefer_optimized /\ Truthy(r[1]) THEN r[1] ELSE Or(r[1], r[2])

\* The loop of _find_latest_atoms_dict over keys.
RECURSIVE AtomsScan(_, _, _)
AtomsScan(keys, tool_outputs, prefer_optimized) ==
    IF keys = <<>> THEN NoneVal
    ELSE LET output == tool_outputs[Head(keys)]
             d == output.d
         IN IF output.kind # "dict"
            THEN AtomsScan(Tail(keys), tool_outputs, prefer_optimized)
            ELSE IF prefer_optimized /\ "optimized_atoms_dict" \in DOMAIN d
                    /\ Truthy(d["optimized_atoms_dict"])
            THEN d["optimized_atoms_dict"]
            ELSE IF "atoms_dict" \in DOMAIN d /\ Truthy(d["atoms_dict"])
            THEN d["atoms_dict"]
            ELSE AtomsScan(Tail(keys), tool_outputs, prefer_optimized)

_find_latest_atoms_dict(tool_outputs, prefer_optimized) ==
    AtomsScan(Reverse(SortedKeys(DOMAIN tool_outputs)), tool_outputs, prefer_optimized)

\* Mutant of _prepare_tool_args: a search step asks for the structure file an
\* earlier step found, when there is one.
_prepare_tool_args_search_found(tool_name, tool_outputs, state, exists) ==
    LET original_query == Get(state, "original_query", "")
        found == Or(_find_cif_filepath(tool_outputs, TRUE), Val(-1, original_query))
    IN IF tool_name = "search_mofs"
       THEN [query |-> found, query_string |-> found]
       ELSE IF tool_name = "parse_structure" THEN [data |-> found]
       ELSE NoFields

\* Mutant of _prepare_tool_args: a search step, too, asks for the file the
\* request names when that file exists.
_prepare_tool_args_search_existing(tool_name, tool_outputs, state, exists) ==
    LET original_query == Get(state, "original_query", "")
        atoms(prefer) == _find_latest_atoms_dict(tool_outputs, prefer)
        payload(a) == IF a # NoneVal THEN [atoms_dict |-> a] ELSE NoFields
        user_path == _extract_existing_structure_path(original_query, exists)
    IN CASE tool_name = "search_mofs" ->
              [query |-> Or(user_path, Val(-1, original_query)),
               query_string |-> Or(user_path, Val(-1, original_query))]
         [] tool_name = "parse_structure" ->
              [data |-> Or(user_path,
                           Or(_find_cif_filepath(tool_outputs, TRUE),
                              Val(-1, original_query)))]
         [] tool_name = "optimize_geometry" -> payload(atoms(FALSE))
         [] tool_name = "static_calculation" -> payload(atoms(TRUE))
         [] OTHER -> NoFields

\* The arguments of a step, before executor and storage are added.
_prepare_tool_args(tool_name, tool_outputs, state, exists) ==
    LET original_query == Get(state, "original_query", "")
        atoms(prefer) == _find_latest_atoms_dict(tool_outputs, prefer)
        payload(a) == IF a # NoneVal THEN [atoms_dict |-> a] ELSE NoFields
    IN CASE tool_name = "search_mofs" ->
              [query |-> Val(-1, original_query), query_string |-> Val(-1, original_query)]
         [] tool_name = "parse_structure" ->
              [data |-> Or(_extract_existing_structure_path(original_query, exists),
                           Or(_find_cif_filepath(tool_outputs, TRUE),
                              Val(-1, original_query)))]
         [] tool_name = "optimize_geometry" -> payload(atoms(FALSE))
         [] tool_name = "static_calculation" -> payload(atoms(TRUE))
         [] OTHER -> NoFields

\* ------------------------------------------------------------ tool transport
\* What the MCP server answers: is_error, whether content is present, how
\* the text of content[0] is written ("json", "fenced": ```json ... ```,
\* "raw": no JSON) and the JSON value it carries.
McpResult(is_error, has_content, form, value) ==
    [is_error |-> is_error, has_content |-> has_content, form |-> form, value |-> value]

\* Mutant of _process_mcp_result: the error of the tool is stored without the
\* name of the tool.
_process_mcp_result_unnamed(result, tool_name, i) ==
    IF result.is_error
    THEN Output("dict", [error |-> Val(i, IF result.has_content THEN "tool error"
                                          ELSE "Unknown error")])
    ELSE IF ~result.has_content THEN Output("dict", NoFields)
    ELSE IF result.form = "json" THEN result.value
    ELSE IF result.form = "fenced" /\ result.value.kind = "dict" THEN result.value
    ELSE Output("other", NoFields)

\* The normalised result of one call made at step i.
_process_mcp_result(result, tool_name, i) ==
    IF result.is_error
    THEN Output("dict", [error |-> Val(i, IF result.has_content THEN "tool error"
                                          ELSE "Unknown error"),
                         tool_name |-> Val(i, tool_name)])
    ELSE IF ~result.has_content THEN Output("dict", NoFields)
    ELSE IF result.form = "json" THEN result.value
    ELSE IF result.form = "fenced" /\ result.value.kind = "dict" THEN result.value
    ELSE Output("other", NoFields)

\* ======================================================================
\* The workflow state and the graph runtime
\* ======================================================================
VARIABLES
    state,         \* the channel values (one per key of AgentState)
    pc,            \* the node to run next, "END", or "raised"
    supersteps,    \* node executions of this run so far
    raised,        \* the exception that left graph.invoke ("none": none)
    calls,         \* transport attempts the Runner made, in order
    kwargs,        \* arguments resolved by the latest resolution
    planner_calls, \* invocations of analyzer_node
    unready,       \* an invocation of analyzer_node returned no ready plan
    rejections,    \* reviews so far that returned approved = false
    runner_calls   \* invocations of runner_node

vars == <<state, pc, supersteps, raised, calls, kwargs, planner_calls,
          unready, rejections, runner_calls>>

\* A node's return value is written to the channels: keys that are no channel
\* are dropped, messages goes through its reducer, every other channel takes
\* the last value.
ApplyWrites(s, update) ==
    [k \in StateKeys |->
        IF k \notin DOMAIN update THEN s[k]
        ELSE IF k = "messages" THEN add_messages(s[k], update[k])
        ELSE update[k]]

\* ---------------------------------------------------------------- request
\* role -> LangChain message type
RoleType(role) ==
    IF role \in {"user", "human"} THEN "human"
    ELSE IF role \in {"assistant", "ai"} THEN "ai"
    ELSE IF role = "system" THEN "system"
    ELSE "human"

\* Mutant of convert_input: the fields of the request replace the defaults.
convert_input_override(input_data) ==
    LET messages ==
            IF "messages" \in DOMAIN input_data
            THEN [i \in 1..Len(input_data["messages"]) |->
                     Msg(RoleType(input_data["messages"][i].role),
                         input_data["messages"][i].content)]
            ELSE <<>>
    IN ("messages" :> messages) @@ input_data
       @@ [original_query |-> "", plan |-> <<>>, current_step |-> 0,
           tool_outputs |-> NoFields, review_feedback |-> "",
           is_plan_approved |-> FALSE]

convert_input(input_data) ==
    LET result ==
            [original_query |-> "", plan |-> <<>>, current_step |-> 0,
             tool_outputs |-> NoFields, review_feedback |-> "",
             is_plan_approved |-> FALSE] @@ ("_rejection_count" :> 0)
        messages ==
            IF "messages" \in DOMAIN input_data
            THEN [i \in 1..Len(input_data["messages"]) |->
                     Msg(RoleType(input_data["messages"][i].role),
                         input_data["messages"][i].content)]
            ELSE <<>>
    IN result @@ ("messages" :> messages) @@ input_data

\* Request bodies: no message, an assistant-only history, a user request, and
\* a request that also carries workflow fields.
RequestInputs ==
    {[messages |-> <<>>],
     [messages |-> <<[role |-> "assistant", content |-> "hello"]>>]}
    \cup {[messages |-> <<[role |-> "user", content |-> "copper"]>>]}
    \cup {[messages |-> <<[role |-> "user", content |-> "copper"]>>,
           plan |-> <<"md_simulation">>, current_step |-> 1,
           is_plan_approved |-> TRUE] @@ ("_rejection_count" :> 5)}

\* The state of a fresh run: the channels written from the converted input.
EmptyChannels ==
    [k \in StateKeys |-> IF k = "messages" THEN <<>> ELSE "unset"]
InitialState(input_data) == ApplyWrites(EmptyChannels, convert_input(input_data))

\* ---------------------------------------------------------------- analyzer
\* The planning model's answer.
PlanSet == UNION {[1..n -> PlanTools] : n \in 0..MaxPlanLen}
PlannerOutcomes ==
    {[kind |-> k, plan |-> <<>>] :
        k \in {"raise", "need_context", "out_of_scope", "unparseable"}}
    \cup {[kind |-> "ready", plan |-> p] : p \in PlanSet}

\* content of the latest human message, "" when there is none
RECURSIVE LastHuman(_)
LastHuman(messages) ==
    IF messages = <<>> THEN ""
    ELSE IF messages[Len(messages)].type = "human"
    THEN messages[Len(messages)].content
    ELSE LastHuman(SubSeq(messages, 1, Len(messages) - 1))

\* The feedback section of the planning prompt: the text of the review
\* feedback it quotes, "" when the section is empty.
feedback_section(s) ==
    LET review_feedback == Get(s, "review_feedback", "")
        rejection_count == Get(s, "_rejection_count", 0)
    IN IF review_feedback # "" /\ rejection_count > 0 THEN review_feedback ELSE ""

\* Mutant of analyzer_node: a new plan is appended to the plan it replaces.
analyzer_node_merge(s, outcome) ==
    IF s["messages"] = <<>> \/ LastHuman(s["messages"]) = "" THEN s
    ELSE IF outcome.kind = "ready"
    THEN [messages |-> <<Msg("ai", "created plan")>>,
          plan |-> Get(s, "plan", <<>>) \o outcome.plan,
          original_query |-> LastHuman(s["messages"]), current_step |-> 0]
    ELSE [messages |-> <<Msg("ai", "out_of_scope")>>, plan |-> <<>>]

\* Mutant of analyzer_node: a failed model call clears original_query.
analyzer_node_requery(s, outcome) ==
    IF s["messages"] = <<>> \/ LastHuman(s["messages"]) = "" THEN s
    ELSE IF outcome.kind = "ready"
    THEN [messages |-> <<Msg("ai", "created plan")>>, plan |-> outcome.plan,
          original_query |-> LastHuman(s["messages"]), current_step |-> 0]
    ELSE IF outcome.kind = "raise"
    THEN [messages |-> <<Msg("ai", "out_of_scope: planning model failed")>>,
          original_query |-> "", plan |-> <<>>, current_step |-> 0,
          is_plan_approved |-> FALSE]
    ELSE [messages |-> <<Msg("ai", "out_of_scope")>>, plan |-> <<>>]

\* Returns the node's update (the whole state on the early returns).
analyzer_node(s, outcome) ==
    LET messages == s["messages"]
        user_query == LastHuman(messages)
        current_plan == Get(s, "plan", <<>>)
        is_revision == Get(s, "_rejection_count", 0) > 0
    IN IF messages = <<>> THEN s
       ELSE IF user_query = "" THEN s
       ELSE CASE outcome.kind = "raise" ->
                   [messages |-> <<Msg("ai", "out_of_scope: planning model failed")>>,
                    original_query |-> user_query, plan |-> <<>>,
                    current_step |-> 0, is_plan_approved |-> FALSE]
              [] outcome.kind = "ready" ->
                   [messages |-> <<Msg("ai", IF is_revision THEN "revised plan"
                                             ELSE "created plan")>>,
                    plan |-> outcome.plan, original_query |-> user_query,
                    current_step |-> 0]
                   @@ (IF current_plan # <<>>
                       THEN ("_previous_plan" :> current_plan) ELSE NoFields)
              [] outcome.kind = "need_context" ->
                   [messages |-> <<Msg("ai", "need_context")>>, plan |-> <<>>]
              [] outcome.kind = "out_of_scope" ->
                   [messages |-> <<Msg("ai", "out_of_scope")>>, plan |-> <<>>]
              [] OTHER -> [messages |-> <<Msg("ai", "raw response")>>]

should_continue_to_supervisor(s) ==
    IF Get(s, "plan", <<>>) # <<>> /\ Len(Get(s, "plan", <<>>)) > 0
    THEN "supervisor" ELSE "end"

\* -------------------------------------------------------------- supervisor
Feedbacks == {"F1", "F2"}
\* The review model's answer: a review that parsed, a text with JSON that
\* does not parse or validate, a text without JSON, or the call failing on
\* both the structured and the plain attempt.
ReviewOutcomes ==
    {[kind |-> "review", approved |-> FALSE, feedback |-> f] : f \in Feedbacks}
    \cup {[kind |-> "review", approved |-> TRUE, feedback |-> "Plan is sound."]}
    \cup {[kind |-> k, approved |-> TRUE, feedback |-> ""] :
            k \in {"bad_json", "no_json", "raise"}}

\* Mutant of supervisor_node: a rejection also clears the plan.
supervisor_node_clears_plan(s, outcome) ==
    IF Get(s, "plan", <<>>) = <<>> \/ outcome.kind # "review" \/ outcome.approved
    THEN [exc |-> "none",
          update |-> [is_plan_approved |-> TRUE, review_feedback |-> "approved"] @@ s]
    ELSE [exc |-> "none",
          update |-> [is_plan_approved |-> FALSE, review_feedback |-> outcome.feedback,
                      plan |-> <<>>] @@ s]

\* [exc, update]: the exception the node raises ("none": none) and its update.
supervisor_node(s, outcome) ==
    LET plan == Get(s, "plan", <<>>)
        review(a, f) ==
            [exc |-> "none",
             update |-> [is_plan_approved |-> a, review_feedback |-> f] @@ s]
    IN IF plan = <<>> THEN review(FALSE, "No plan provided for review.")
       ELSE CASE outcome.kind = "review" -> review(outcome.approved, outcome.feedback)
              [] outcome.kind = "bad_json" ->
                   review(TRUE, "Could not parse review, defaulting to approved.")
              [] outcome.kind = "no_json" ->
                   review(TRUE, "No structured review found, defaulting to approved.")
              [] OTHER -> [exc |-> "review model error", update |-> NoFields]

\* Mutant of should_continue_after_supervisor: approval is forced on the first
\* rejection.
should_continue_after_supervisor_at_once(s) ==
    IF Get(s, "is_plan_approved", FALSE) THEN [route |-> "runner", state |-> s]
    ELSE LET rejection_count == Get(s, "_rejection_count", 0) + 1
             s1 == ("_rejection_count" :> rejection_count) @@ s
         IN [route |-> "runner",
             state |-> [is_plan_approved |-> TRUE,
                        review_feedback |->
                            "Auto-approved after " \o ToString(rejection_count)
                            \o " rejections. Previous feedback: "
                            \o Get(s, "review_feedback", "N/A")] @@ s1]

\* [route, state]: the route, and the function's own copy of the state with
\* the assignments it made to it.
should_continue_after_supervisor(s) ==
    IF Get(s, "is_plan_approved", FALSE) THEN [route |-> "runner", state |-> s]
    ELSE LET rejection_count == Get(s, "_rejection_count", 0) + 1
             s1 == ("_rejection_count" :> rejection_count) @@ s
         IN IF rejection_count >= RejectionCeiling
            THEN [route |-> "runner",
                  state |-> [is_plan_approved |-> TRUE,
                             review_feedback |->
                                 "Auto-approved after " \o ToString(rejection_count)
                                 \o " rejections. Previous feedback: "
                                 \o Get(s, "review_feedback", "N/A")] @@ s1]
            ELSE [route |-> "analyzer", state |-> s1]

\* ------------------------------------------------------------------ runner
\* What one tool call can come to at step i: the connection or the call
\* raises, or the server answers (a tool error, no content, a JSON object).
McpResults(i) ==
    {McpResult(TRUE, TRUE, "raw", Output("other", NoFields)),
     McpResult(FALSE, FALSE, "raw", Output("other", NoFields)),
     McpResult(FALSE, TRUE, "json", Output("dict", [atoms_dict |-> Val(i, "atoms")]))}
NoResult == McpResult(FALSE, FALSE, "raw", Output("other", NoFields))
TransportOutcomes(i) ==
    {[kind |-> "call_error", result |-> NoResult]}
    \cup {[kind |-> "result", result |-> r] : r \in McpResults(i)}

\* Mutant of record_step: the cursor advances only past a step that succeeded.
record_step_retry(s, current_step, tool_name, stored) ==
    [s EXCEPT
        !["tool_outputs"] =
            (StepKey(current_step, tool_name) :> stored) @@ Get(s, "tool_outputs", NoFields),
        !["current_step"] =
            IF "error" \in DOMAIN stored.d THEN current_step ELSE current_step + 1]

\* Mutant of record_step: a result without fields is not stored.
record_step_skip_empty(s, current_step, tool_name, stored) ==
    [s EXCEPT
        !["tool_outputs"] =
            IF stored.d = NoFields THEN Get(s, "tool_outputs", NoFields)
            ELSE (StepKey(current_step, tool_name) :> stored)
                 @@ Get(s, "tool_outputs", NoFields),
        !["current_step"] = current_step + 1]

\* Mutant of record_step: only the result of a step that succeeded is kept.
record_step_drop_errors(s, current_step, tool_name, stored) ==
    [s EXCEPT
        !["tool_outputs"] =
            IF "error" \in DOMAIN stored.d THEN Get(s, "tool_outputs", NoFields)
            ELSE (StepKey(current_step, tool_name) :> stored)
                 @@ Get(s, "tool_outputs", NoFields),
        !["current_step"] = current_step + 1]

\* tool_outputs[f"step_{current_step}_{tool_name}"] = stored, and the update
\* of the state that ends runner_node.
record_step(s, current_step, tool_name, stored) ==
    [s EXCEPT
        !["tool_outputs"] =
            (StepKey(current_step, tool_name) :> stored) @@ Get(s, "tool_outputs", NoFields),
        !["current_step"] = current_step + 1]

\* [state, attempts, kwargs]: the state the node returns, the transport
\* attempts it made and the arguments it resolved.
runner_node(s, outcome, exists) ==
    LET plan == Get(s, "plan", <<>>)
        current_step == Get(s, "current_step", 0)
        tool_outputs == Get(s, "tool_outputs", NoFields)
    IN IF current_step >= Len(plan)
       THEN [state |-> s, attempts |-> <<>>, kwargs |-> [tool |-> "", args |-> NoFields]]
       ELSE LET tool_name == plan[current_step + 1]
                args == [executor |-> Val(-1, "local"), storage |-> Val(-1, "local")]
                        @@ _prepare_tool_args(tool_name, tool_outputs, s, exists)
                stored ==
                    IF outcome.kind = "result"
                    THEN _process_mcp_result(outcome.result, tool_name, current_step)
                    ELSE Output("dict",
                                [error |-> Val(current_step, "Exception"),
                                 tool_name |-> Val(current_step, tool_name),
                                 traceback |-> Val(current_step, "Traceback")])
            IN [state |-> record_step(s, current_step, tool_name, stored),
                attempts |->
                    <<[step |-> current_step, tool |-> tool_name, args |-> args,
                       raised |-> outcome.kind # "result",
                       is_error |-> outcome.kind = "result" /\ outcome.result.is_error]>>,
                kwargs |-> [tool |-> tool_name, args |-> args]]

\* Mutant of should_continue_runner: <= for <.
should_continue_runner_le(s) ==
    IF Get(s, "current_step", 0) <= Len(Get(s, "plan", <<>>))
    THEN "runner" ELSE "reporter"

should_continue_runner(s) ==
    IF Get(s, "current_step", 0) < Len(Get(s, "plan", <<>>))
    THEN "runner" ELSE "reporter"

\* ---------------------------------------------------------------- reporter
ReportOutcomes == {"report", "raise"}

\* [exc, update]
reporter_node(s, outcome) ==
    LET tool_outputs == Get(s, "tool_outputs", NoFields)
        with(m) == [s EXCEPT !["messages"] = Append(s["messages"], m)]
    IN IF DOMAIN tool_outputs = {}
       THEN [exc |-> "none",
             update |->
                 with(Msg("ai", "No results to report - workflow did not complete successfully."))]
       ELSE IF outcome = "raise"
       THEN [exc |-> "report model error", update |-> NoFields]
       ELSE [exc |-> "none", update |-> with(Msg("ai", "report"))]

\* ======================================================================
\* The run of the compiled graph
\* ======================================================================
Nodes == {"analyzer", "supervisor", "runner", "reporter"}

Init ==
    /\ \E input_data \in RequestInputs : state = InitialState(input_data)
    /\ pc = "analyzer"
    /\ supersteps = 0
    /\ raised = "none"
    /\ calls = <<>>
    /\ kwargs = [tool |-> "", args |-> NoFields]
    /\ planner_calls = 0
    /\ unready = FALSE
    /\ rejections = 0
    /\ runner_calls = 0

\* analyzer, then the edge should_continue_to_supervisor
Analyzer ==
    /\ pc = "analyzer"
    /\ supersteps < RecursionLimit
    /\ \E outcome \in PlannerOutcomes :
        LET update == analyzer_node(state, outcome)
            s2 == ApplyWrites(state, update)
        IN /\ state' = s2
           /\ pc' = IF should_continue_to_supervisor(s2) = "supervisor"
                    THEN "supervisor" ELSE "END"
           /\ unready' = (unready \/ update = state \/ outcome.kind # "ready")
    /\ supersteps' = supersteps + 1
    /\ planner_calls' = planner_calls + 1
    /\ UNCHANGED <<raised, calls, kwargs, rejections, runner_calls>>

\* supervisor, then the edge should_continue_after_supervisor.  The edge
\* function works on its own read of the channels: the runtime takes the
\* route it returns and nothing else.
Supervisor ==
    /\ pc = "supervisor"
    /\ supersteps < RecursionLimit
    /\ \E outcome \in ReviewOutcomes :
        LET r == supervisor_node(state, outcome)
            s2 == ApplyWrites(state, r.update)
        IN IF r.exc # "none"
           THEN /\ raised' = r.exc
                /\ pc' = "raised"
                /\ UNCHANGED <<state, rejections>>
           ELSE /\ state' = s2
                /\ pc' = should_continue_after_supervisor(s2).route
                /\ rejections' = IF s2["is_plan_approved"] THEN rejections
                                 ELSE rejections + 1
                /\ UNCHANGED raised
    /\ supersteps' = supersteps + 1
    /\ UNCHANGED <<calls, kwargs, planner_calls, unready, runner_calls>>

\* runner, then the edge should_continue_runner
Runner ==
    /\ pc = "runner"
    /\ supersteps < RecursionLimit
    /\ \E outcome \in TransportOutcomes(state["current_step"]),
          exists \in PathAnswers(state["original_query"]) :
        LET r == runner_node(state, outcome, exists)
            s2 == ApplyWrites(state, r.state)
        IN /\ state' = s2
           /\ pc' = should_continue_runner(s2)
           /\ calls' = calls \o r.attempts
           /\ kwargs' = r.kwargs
    /\ supersteps' = supersteps + 1
    /\ runner_calls' = runner_calls + 1
    /\ UNCHANGED <<raised, planner_calls, unready, rejections>>

\* runner_node has sent the call of the current step and awaits an answer
\* that never comes: the await of call_tool is under no timeout, so the node
\* does not return and the run has no further step.
RunnerAwaits ==
    /\ pc = "runner"
    /\ supersteps < RecursionLimit
    /\ state["current_step"] < Len(state["plan"])
    /\ \E exists \in PathAnswers(state["original_query"]) :
        LET r == runner_node(state, [kind |-> "call_error", result |-> NoResult], exists)
        IN /\ calls' = Append(calls, [r.attempts[1] EXCEPT !.raised = FALSE])
           /\ kwargs' = r.kwargs
    /\ pc' = "awaiting"
    /\ UNCHANGED <<state, supersteps, raised, planner_calls, unready, rejections,
                   runner_calls>>

\* reporter, then the edge to END
Reporter ==
    /\ pc = "reporter"
    /\ supersteps < RecursionLimit
    /\ \E outcome \in ReportOutcomes :
        LET r == reporter_node(state, outcome)
        IN IF r.exc # "none"
           THEN /\ raised' = r.exc
                /\ pc' = "raised"
                /\ UNCHANGED state
           ELSE /\ state' = ApplyWrites(state, r.update)
                /\ pc' = "END"
                /\ UNCHANGED raised
    /\ supersteps' = supersteps + 1
    /\ UNCHANGED <<calls, kwargs, planner_calls, unready, rejections, runner_calls>>

\* A node is due but the run has used up its supersteps.
RecursionError ==
    /\ pc \in Nodes
    /\ supersteps >= RecursionLimit
    /\ raised' = "GraphRecursionError"
    /\ pc' = "raised"
    /\ UNCHANGED <<state, supersteps, calls, kwargs, planner_calls, unready,
                   rejections, runner_calls>>

Next == Analyzer \/ Supervisor \/ Runner \/ RunnerAwaits \/ Reporter \/ RecursionError

Spec == Init /\ [][Next]_vars


\* ======================================================================
\* The argument resolver applied to the results of earlier steps
\* ======================================================================
\* Results a step may have left in tool_outputs at index i.
ResolverShapes(i) ==
    {Output("dict", [atoms_dict |-> Val(i, "atoms")]),
     Output("dict", [optimized_atoms_dict |-> Val(i, "relaxed atoms")]),
     Output("dict", [atoms_dict |-> Val(i, "atoms"), error |-> Val(i, "x"),
                     tool_name |-> Val(i, "tool")]),
     Output("dict", [atoms_dict |-> Val(i, "")]),
     Output("dict", [cif_filepath |-> Val(i, "/data/found.cif")]),
     Output("dict", [optimized_cif_filepath |-> Val(i, "/data/relaxed.cif"),
                     error |-> Val(i, "x")]),
     Output("dict", [error |-> Val(i, "x"), tool_name |-> Val(i, "tool")]),
     Output("list", [cif_filepath |-> Val(i, "/data/found.cif")]),
     Output("other", NoFields)}

\* Tools whose names the earlier steps' keys carry.
ResolverKeyTools == {"parse_structure", "optimize_geometry"}

\* [plan, tool_outputs] after n executed steps
RECURSIVE Executed(_)
Executed(n) ==
    IF n = 0 THEN {[plan |-> <<>>, tool_outputs |-> NoFields]}
    ELSE {[plan |-> Append(e.plan, t),
           tool_outputs |-> (StepKey(n - 1, t) :> o) @@ e.tool_outputs] :
            e \in Executed(n - 1), t \in ResolverKeyTools, o \in ResolverShapes(n - 1)}

\* The Runner is about to resolve the arguments of step n of an approved plan.
InitResolver ==
    /\ \E n \in 0..MaxOutputs, q \in Queries, tool \in ToolNames :
        \E e \in Executed(n) :
            state = [messages |-> add_messages(<<>>, <<Msg("human", q)>>),
                     original_query |-> q,
                     plan |-> Append(e.plan, tool),
                     current_step |-> n,
                     tool_outputs |-> e.tool_outputs,
                     review_feedback |-> "F1",
                     is_plan_approved |-> TRUE]
    /\ pc = "resolve"
    /\ supersteps = 0
    /\ raised = "none"
    /\ calls = <<>>
    /\ kwargs = [tool |-> "", args |-> NoFields]
    /\ planner_calls = 0
    /\ unready = FALSE
    /\ rejections = 0
    /\ runner_calls = 0

Resolve ==
    /\ pc = "resolve"
    /\ \E exists \in PathAnswers(state["original_query"]) :
        LET tool_name == state["plan"][state["current_step"] + 1]
        IN kwargs' =
            [tool |-> tool_name,
             args |-> _prepare_tool_args(tool_name, state["tool_outputs"], state, exists)]
    /\ pc' = "resolved"
    /\ UNCHANGED <<state, supersteps, raised, calls, planner_calls, unready,
                   rejections, runner_calls>>

\* The same step is resolved once more against the same state; the file
\* system is asked again whether the path of the request exists.
ResolveAgain ==
    /\ pc = "resolved"
    /\ \E exists \in PathAnswers(state["original_query"]) :
        LET tool_name == state["plan"][state["current_step"] + 1]
        IN kwargs' =
            [tool |-> tool_name,
             args |-> _prepare_tool_args(tool_name, state["tool_outputs"], state, exists)]
    /\ pc' = "resolved_again"
    /\ UNCHANGED <<state, supersteps, raised, calls, planner_calls, unready,
                   rejections, runner_calls>>

NextResolver == Resolve \/ ResolveAgain

ResolverSpec == InitResolver /\ [][NextResolver]_vars

\* ======================================================================
\* The Runner run over a long approved plan
\* ======================================================================
\* A plan of LongPlanLen steps that each need the atoms of an earlier one.
LongPlan == [i \in 1..LongPlanLen |-> "optimize_geometry"]

\* What a call of the long plan comes to at step i: it raises, or the server
\* answers with a JSON object that carries atoms.
LongOutcomes(i) ==
    {[kind |-> "call_error", result |-> NoResult],
     [kind |-> "result",
      result |-> McpResult(FALSE, TRUE, "json",
                           Output("dict", [atoms_dict |-> Val(i, "atoms")]))]}

\* The plan has been approved and the Runner is due at step 0.
InitLongPlan ==
    /\ state = [messages |-> add_messages(<<>>, <<Msg("human", "copper"),
                                                  Msg("ai", "created plan")>>),
                original_query |-> "copper",
                plan |-> LongPlan,
                current_step |-> 0,
                tool_outputs |-> NoFields,
                review_feedback |-> "Plan is sound.",
                is_plan_approved |-> TRUE]
    /\ pc = "runner"
    /\ supersteps = 2
    /\ raised = "none"
    /\ calls = <<>>
    /\ kwargs = [tool |-> "", args |-> NoFields]
    /\ planner_calls = 1
    /\ unready = FALSE
    /\ rejections = 0
    /\ runner_calls = 0

\* runner, then the edge should_continue_runner
RunLongPlan ==
    /\ pc = "runner"
    /\ supersteps < RecursionLimit
    /\ \E outcome \in LongOutcomes(state["current_step"]) :
        LET r == runner_node(state, outcome, FALSE)
            s2 == ApplyWrites(state, r.state)
        IN /\ state' = s2
           /\ pc' = should_continue_runner(s2)
           /\ calls' = calls \o r.attempts
           /\ kwargs' = r.kwargs
    /\ supersteps' = supersteps + 1
    /\ runner_calls' = runner_calls + 1
    /\ UNCHANGED <<raised, planner_calls, unready, rejections>>

NextLongPlan == RunLongPlan

LongPlanSpec == InitLongPlan /\ [][NextLongPlan]_vars

\* ======================================================================
\* Two workflow instances served by one process
\* ======================================================================
\* Two requests are being served at once. In this specification state has a
\* field per instance (its channels, with tool_outputs held as a reference
\* to a dict object) and a field heap (the contents of the dict objects);
\* pc has a field per instance. runner_node writes its result into the dict
\* object itself (tool_outputs[key] = ...), so what an instance sees is
\* the content of the object its channel refers to.
Instances == {"a", "b"}
Other(i) == IF i = "a" THEN "b" ELSE "a"

\* Mutant of fresh_outputs: one dict object is the default of every request.
fresh_outputs_shared(i) == "a"

\* "tool_outputs": {} in convert_input: the literal is evaluated at every
\* call, so each request gets a dict object of its own.
fresh_outputs(i) == i

\* Approved plans of the two instances: up to MaxPlanLen steps that each
\* need the atoms of an earlier one.
PairPlans == {[j \in 1..n |-> "optimize_geometry"] : n \in 1..MaxPlanLen}

\* The state a node of instance i is handed: its channels, with the dict
\* object of tool_outputs read through.
ViewOf(st, i) == [st[i] EXCEPT !["tool_outputs"] = st["heap"][st[i]["tool_outputs"]]]

\* Both plans have been approved and both Runners are due at step 0.
InitPair ==
    /\ \E q \in [Instances -> Queries], p \in [Instances -> PairPlans] :
        state =
            [i \in Instances |->
                [messages |-> add_messages(<<>>, <<Msg("human", q[i]),
                                                  Msg("ai", "created plan")>>),
                 original_query |-> q[i],
                 plan |-> p[i],
                 current_step |-> 0,
                 tool_outputs |-> fresh_outputs(i),
                 review_feedback |-> "Plan is sound.",
                 is_plan_approved |-> TRUE]]
            @@ [heap |-> [o \in Instances |-> NoFields]]
    /\ pc = [i \in Instances |-> "runner"]
    /\ supersteps = 2
    /\ raised = "none"
    /\ calls = <<>>
    /\ kwargs = [tool |-> "", args |-> NoFields]
    /\ planner_calls = 1
    /\ unready = FALSE
    /\ rejections = 0
    /\ runner_calls = 0

\* runner of one instance, then the edge should_continue_runner
PairRunner ==
    /\ \E i \in Instances :
        /\ pc[i] = "runner"
        /\ \E outcome \in LongOutcomes(state[i]["current_step"]),
              exists \in PathAnswers(state[i]["original_query"]) :
            LET ref == state[i]["tool_outputs"]
                r == runner_node(ViewOf(state, i), outcome, exists)
                s2 == ApplyWrites(ViewOf(state, i), r.state)
            IN /\ state' = [state EXCEPT ![i] = [s2 EXCEPT !["tool_outputs"] = ref],
                                         !["heap"][ref] = s2["tool_outputs"]]
               /\ pc' = [pc EXCEPT ![i] = should_continue_runner(s2)]
    /\ UNCHANGED <<supersteps, raised, calls, kwargs, planner_calls, unready,
                   rejections, runner_calls>>

\* reporter of one instance, then the edge to END
PairReporter ==
    /\ \E i \in Instances :
        /\ pc[i] = "reporter"
        /\ \E outcome \in ReportOutcomes :
            LET ref == state[i]["tool_outputs"]
                r == reporter_node(ViewOf(state, i), outcome)
                s2 == ApplyWrites(ViewOf(state, i), r.update)
            IN IF r.exc # "none"
               THEN /\ pc' = [pc EXCEPT ![i] = "raised"]
                    /\ UNCHANGED state
               ELSE /\ state' = [state EXCEPT ![i] = [s2 EXCEPT !["tool_outputs"] = ref]]
                    /\ pc' = [pc EXCEPT ![i] = "END"]
    /\ UNCHANGED <<supersteps, raised, calls, kwargs, planner_calls, unready,
                   rejections, runner_calls>>

NextPair == PairRunner \/ PairReporter

PairSpec == InitPair /\ [][NextPair]_vars

\* ======================================================================
\* The Reviewer applied to a workflow state
\* ======================================================================
\* States supervisor_node may be handed: any plan (the empty one too), any
\* cursor within it, with or without an earlier result.
ReviewInputs ==
    {[messages |-> add_messages(<<>>, <<Msg("human", q), Msg("ai", "created plan")>>),
      original_query |-> q,
      plan |-> p,
      current_step |-> c,
      tool_outputs |-> o,
      review_feedback |-> f,
      is_plan_approved |-> FALSE] :
        q \in Queries, p \in PlanSet, c \in 0..MaxPlanLen,
        o \in {NoFields,
               StepKey(0, "search_mofs") :>
                   Output("dict", [atoms_dict |-> Val(0, "atoms")])},
        f \in {"", "F1"}}

InitReview ==
    /\ state \in ReviewInputs
    /\ pc = "review"
    /\ supersteps = 1
    /\ raised = "none"
    /\ calls = <<>>
    /\ kwargs = [tool |-> "", args |-> NoFields]
    /\ planner_calls = 1
    /\ unready = FALSE
    /\ rejections = 0
    /\ runner_calls = 0

\* supervisor_node and the write of what it returns
Review ==
    /\ pc = "review"
    /\ \E outcome \in ReviewOutcomes :
        LET r == supervisor_node(state, outcome)
        IN IF r.exc # "none"
           THEN /\ raised' = r.exc
                /\ pc' = "raised"
                /\ UNCHANGED <<state, rejections>>
           ELSE /\ state' = ApplyWrites(state, r.update)
                /\ pc' = "reviewed"
                /\ rejections' = IF state'["is_plan_approved"] THEN rejections
                                 ELSE rejections + 1
                /\ UNCHANGED raised
    /\ supersteps' = supersteps + 1
    /\ UNCHANGED <<calls, kwargs, planner_calls, unready, runner_calls>>

NextReview == Review

ReviewSpec == InitReview /\ [][NextReview]_vars

\* ======================================================================
\* Properties
\* ======================================================================
plan_now == state["plan"]
cursor == state["current_step"]
outputs == state["tool_outputs"]
LastMessage == state["messages"][Len(state["messages"])]
HasError(o) == o.kind = "dict" /\ Truthy(Get(o.d, "error", NoneVal))
\* The result stored by step i.
ResultOf(i) == outputs[StepKey(i, plan_now[i + 1])]

\* C1: a run in which every Planner call returned a ready plan leaves the
\* analyzer/supervisor loop for the Runner, whatever the reviews say: it is
\* never cut off by the runtime while still alternating between the two.
C1_LeavesReviewLoop ==
    ~(raised = "GraphRecursionError" /\ runner_calls = 0 /\ ~unready)

\* C2: the Planner is re-invoked at most RejectionCeiling times: the
\* rejection that follows RejectionCeiling earlier ones forces approval
\* instead of another replan.
C2_ForcedAfterCeiling ==
    /\ planner_calls <= RejectionCeiling + 1
    /\ rejections > RejectionCeiling =>
           pc # "analyzer" /\ state["is_plan_approved"]

\* C3: the Runner is invoked once per step of the approved plan: while it is
\* due, its invocations so far equal the cursor, which is short of the plan's
\* length; the Reporter is due exactly when len(plan) invocations brought the
\* cursor to len(plan).
C3_RunnerTerminates ==
    /\ pc = "runner" => runner_calls = cursor /\ cursor < Len(plan_now)
    /\ pc = "reporter" => runner_calls = Len(plan_now) /\ cursor = Len(plan_now)

\* C3 witness: a two-step plan whose first step failed and whose second
\* succeeded has been run to its end.
C3_Witness ==
    /\ pc = "reporter"
    /\ Len(plan_now) = 2
    /\ HasError(ResultOf(0))
    /\ ~HasError(ResultOf(1))

\* C4: no exception leaves the run of the graph.
C4_NoExceptionEscapes == raised = "none"

\* C5: the cursor stays within [0, len(plan)], never decreases, and every
\* Runner invocation raises it by exactly 1, whether the step succeeded or
\* failed.
C5_CursorAdvances ==
    /\ [](0 <= cursor /\ cursor <= Len(plan_now))
    /\ [][/\ state'["current_step"] >= cursor
          /\ runner_calls' # runner_calls => state'["current_step"] = cursor + 1]_vars

\* C5 witness: after a replan, a step has failed and the cursor has moved
\* past it.
C5_Witness ==
    /\ planner_calls >= 2
    /\ cursor = 1
    /\ Len(plan_now) = 2
    /\ HasError(ResultOf(0))

\* C6: a Runner invocation at cursor i with tool t adds the one key
\* "step_i_t", which was not there, to tool_outputs; no step of the workflow
\* removes an entry or changes the value of one.
C6_AppendOnly ==
    [][/\ \A k \in DOMAIN outputs :
            k \in DOMAIN state'["tool_outputs"] /\ state'["tool_outputs"][k] = outputs[k]
       /\ runner_calls' # runner_calls =>
            LET key == StepKey(cursor, plan_now[cursor + 1])
            IN /\ key \notin DOMAIN outputs
               /\ DOMAIN state'["tool_outputs"] = DOMAIN outputs \cup {key}]_vars

\* C6 witness: a plan that names the same tool twice has run both steps.
C6_Witness ==
    /\ Len(plan_now) = 2
    /\ plan_now[1] = plan_now[2]
    /\ cursor = 2
    /\ Cardinality(DOMAIN outputs) = 2

\* C7: the Runner makes no transport attempt for a tool outside the known
\* tools.
C7_UnknownToolNotCalled ==
    \A i \in 1..Len(calls) : calls[i].tool \in KnownTools

\* C8: a step that needs an atoms_dict is never sent to the tool without one.
C8_NoCallWithoutArtifact ==
    \A i \in 1..Len(calls) :
        calls[i].tool \in {"optimize_geometry", "static_calculation"} =>
            "atoms_dict" \in DOMAIN calls[i].args

\* Steps whose result is a dict that exposes field f with a value.
Exposing(f) ==
    {i \in 0..(cursor - 1) :
        ResultOf(i).kind = "dict" /\ Truthy(Get(ResultOf(i).d, f, NoneVal))}
Latest(S) == CHOOSE i \in S : \A j \in S : j <= i

\* C9: static_calculation gets the optimized_atoms_dict of the most recent
\* result that exposes one, whatever later results expose only atoms_dict;
\* it gets an atoms_dict only when no result exposes optimized_atoms_dict.
\* (Stated for earlier results none of which carries an error.)
C9_ProcessedPreferred ==
    (/\ pc = "resolved"
     /\ kwargs.tool = "static_calculation"
     /\ \A i \in 0..(cursor - 1) : ~HasError(ResultOf(i))
     /\ Exposing("optimized_atoms_dict") # {})
    => /\ "atoms_dict" \in DOMAIN kwargs.args
       /\ kwargs.args["atoms_dict"] =
            ResultOf(Latest(Exposing("optimized_atoms_dict"))).d["optimized_atoms_dict"]

\* C10: an artifact the resolver returns never comes from a result that
\* carries an error.
C10_NoErrorSource ==
    pc = "resolved" =>
        \A f \in DOMAIN kwargs.args :
            kwargs.args[f].src >= 0 => ~HasError(ResultOf(kwargs.args[f].src))

\* C11: a step that needs atoms is called with the atoms of the result with
\* the numerically highest step index among the earlier results that expose
\* atoms, also when the indices have two digits.
C11_LatestByIndex ==
    \A n \in 1..Len(calls) :
        LET earlier ==
                {j \in 0..(calls[n].step - 1) :
                    ResultOf(j).kind = "dict"
                    /\ Truthy(Get(ResultOf(j).d, "atoms_dict", NoneVal))}
        IN (calls[n].tool = "optimize_geometry" /\ earlier # {}) =>
              /\ "atoms_dict" \in DOMAIN calls[n].args
              /\ calls[n].args["atoms_dict"].src = Latest(earlier)

\* The review_feedback a forced approval leaves.
AutoApproved ==
    {"Auto-approved after " \o ToString(RejectionCeiling)
        \o " rejections. Previous feedback: " \o f : f \in Feedbacks}

\* C13: once the Reviewer has rejected more than RejectionCeiling times, the
\* plan is approved and review_feedback says it was auto-approved after
\* RejectionCeiling rejections and quotes the feedback of a rejection.
C13_ForcedFeedback ==
    rejections > RejectionCeiling =>
        state["is_plan_approved"] /\ state["review_feedback"] \in AutoApproved

\* C14: once a Planner call has returned anything but a ready plan, the
\* workflow is at its end: neither the Reviewer nor the Runner nor the
\* Reporter is due.
C14_OnlyReadyIsReviewed == unready => pc = "END"

\* The latest message is the one a failed Planner call left: the model call
\* raised, or no JSON object could be taken from the response.
PlannerFailed ==
    /\ state["messages"] # <<>>
    /\ LastMessage.type = "ai"
    /\ LastMessage.content \in {"out_of_scope: planning model failed", "raw response"}

\* C15: after a Planner failure the workflow has ended with an out_of_scope
\* message that carries the reason, an empty plan, and no exception.
C15_PlannerFailureOutOfScope ==
    PlannerFailed =>
        /\ LastMessage.content = "out_of_scope: planning model failed"
        /\ plan_now = <<>>
        /\ pc = "END"
        /\ raised = "none"

\* C16: the Reviewer never raises, and a review that could not be parsed
\* leaves the plan approved with the feedback of the fallback.
C16_ReviewerNeverRaises ==
    /\ raised # "review model error"
    /\ state["review_feedback"] \in
           {"Could not parse review, defaulting to approved.",
            "No structured review found, defaulting to approved."}
       => state["is_plan_approved"]

\* C17: a Reviewer invocation leaves every channel but is_plan_approved and
\* review_feedback as it was: plan, current_step, tool_outputs,
\* original_query and messages.
C17_ReviewerFrame ==
    [][(pc = "supervisor" \/ pc = "review") =>
          \A k \in StateKeys \ {"is_plan_approved", "review_feedback"} :
              state'[k] = state[k]]_vars

\* C17 witness: the Reviewer has rejected a two-step plan whose first step
\* had run; the plan, the cursor and the result are still there.
C17_Witness ==
    /\ pc = "reviewed"
    /\ ~state["is_plan_approved"]
    /\ state["review_feedback"] \in Feedbacks
    /\ Len(plan_now) = 2
    /\ cursor = 1
    /\ DOMAIN outputs # {}

\* C18: the prompt of a Planner invocation that follows a rejection quotes
\* the feedback of the latest rejection; the prompt of the first invocation
\* quotes none.
C18_FeedbackInPrompt ==
    [][(planner_calls' = planner_calls + 1 /\ LastHuman(state["messages"]) # "") =>
          IF rejections > 0
          THEN feedback_section(state) = state["review_feedback"]
          ELSE feedback_section(state) = ""]_vars

\* The step is an invocation of the Planner on a replan that left the
\* message of a ready plan.
ReadyReplan ==
    /\ pc = "analyzer"
    /\ rejections > 0
    /\ planner_calls' = planner_calls + 1
    /\ state'["messages"][Len(state'["messages"])].content
           \in {"created plan", "revised plan"}

C20_QueryImmutable ==
    [][state["original_query"] # "" =>
          state'["original_query"] = state["original_query"]]_vars

\* C20 witness: a workflow with a replan has run to its end with the query
\* of its first planning call.
C20_Witness ==
    /\ pc = "END"
    /\ planner_calls >= 2
    /\ runner_calls >= 1
    /\ state["original_query"] = "copper"

\* C21: when the step at index i is due, tool_outputs holds exactly the
\* results of the steps 0..i-1, each under the key of its index and tool; and
\* every value a call was given came from the request or from a step with a
\* lower index than the call's own.
C21_OnlyEarlierResults ==
    /\ pc = "runner" =>
           DOMAIN outputs = {StepKey(j, plan_now[j + 1]) : j \in 0..(cursor - 1)}
    /\ \A n \in 1..Len(calls) :
           \A f \in DOMAIN calls[n].args : calls[n].args[f].src < calls[n].step

\* C21 witness: the second step of a plan has been called with the atoms the
\* first step returned.
C21_Witness ==
    /\ Len(calls) = 2
    /\ calls[2].step = 1
    /\ "atoms_dict" \in DOMAIN calls[2].args
    /\ calls[2].args["atoms_dict"].src = 0

\* C22: the arguments resolved for search_mofs are the original request
\* text, as query and as query_string, whatever tool_outputs holds.
C22_SearchUsesRequest ==
    (pc = "resolved" /\ kwargs.tool = "search_mofs") =>
        kwargs.args = [query |-> Val(-1, state["original_query"]),
                       query_string |-> Val(-1, state["original_query"])]

\* C22 witness: a search step was resolved after two steps, one of which had
\* found a structure file.
C22_Witness ==
    /\ pc = "resolved"
    /\ kwargs.tool = "search_mofs"
    /\ cursor = 2
    /\ Exposing("cif_filepath") # {}

\* C23 (as stated): resolving the arguments of a step a second time against
\* the same tool_outputs and original_query returns the arguments of the
\* first time, for every tool name, and leaves the state as it was.
C23_ResolutionPure ==
    [][(pc = "resolved" /\ pc' = "resolved_again") =>
           /\ kwargs' = kwargs
           /\ state' = state]_vars

\* C23 (amended): the same, except for a parse_structure step of a request
\* that names a structure file path, whose argument also depends on whether
\* that file exists when the step is resolved.
C23_ResolutionPureButForPath ==
    [][(pc = "resolved" /\ pc' = "resolved_again") =>
           /\ state' = state
           /\ (kwargs.tool # "parse_structure" \/ ~HasPath(state["original_query"]))
                  => kwargs' = kwargs]_vars

\* C23 witness: a calculation step of a request that names a path was
\* resolved twice after two earlier steps, and was given atoms.
C23_Witness ==
    /\ pc = "resolved_again"
    /\ HasPath(state["original_query"])
    /\ kwargs.tool = "static_calculation"
    /\ cursor = 2
    /\ "atoms_dict" \in DOMAIN kwargs.args

C25_OneCallPerStep ==
    /\ \A m, n \in 1..Len(calls) : m # n => calls[m].step # calls[n].step
    /\ Len(calls) <= Len(plan_now)

\* C25 witness: a run ended after two calls, the first of which failed.
C25_Witness ==
    /\ pc = "END"
    /\ Len(calls) = 2
    /\ calls[1].raised
    /\ ~calls[2].raised
    /\ calls[1].step = 0
    /\ calls[2].step = 1

\* C26: a run that is waiting for the answer of a tool call always has a
\* step left to take (the wait ends, the step is recorded as an error and the
\* cursor advances): no run is stuck on a call that does not answer.
C26_NoEndlessWait == pc = "awaiting" => ENABLED <<Next>>_vars

\* C27: every step taken while the Reporter is due (the cursor is at the end
\* of the plan) ends the run completed: no exception is raised and the last
\* message is the AI message the Reporter appended.
C27_ReportingCompletes ==
    [][pc = "reporter" =>
           /\ pc' = "END"
           /\ raised' = "none"
           /\ state'["messages"][Len(state'["messages"])].type = "ai"
           /\ state'["messages"][Len(state'["messages"])].id
                  \notin {state["messages"][i].id : i \in 1..Len(state["messages"])}]_vars

\* C28: a run that executed its plan and whose first step recorded an error
\* ends with a report message that marks the workflow as "did not complete
\* successfully", with the plan and the recorded results still in the
\* final state.
C28_FailureMarked ==
    (pc = "END" /\ runner_calls >= 1 /\ HasError(ResultOf(0))) =>
        /\ LastMessage.content =
               "No results to report - workflow did not complete successfully."
        /\ Len(plan_now) = runner_calls
        /\ \A j \in 0..(cursor - 1) : StepKey(j, plan_now[j + 1]) \in DOMAIN outputs

\* C29: the final output of a run tells whether steps ran: a run that ended
\* without any Runner invocation returns empty tool_outputs, and a run in
\* which steps ran, errors or not, returns one result per step, so the two
\* never return the same results.
C29_NeverRanIsTold ==
    pc = "END" =>
        /\ runner_calls = 0 <=> DOMAIN outputs = {}
        /\ runner_calls >= 1 => Cardinality(DOMAIN outputs) = runner_calls

\* C29 witness: a run ended after two steps that both recorded errors.
C29_Witness ==
    /\ pc = "END"
    /\ runner_calls = 2
    /\ HasError(ResultOf(0))
    /\ HasError(ResultOf(1))

\* C30: of two instances whose node executions interleave, every step is
\* the step of one of them: it leaves the plan, cursor, results, feedback,
\* approval and messages the other one sees as they were, and it is the step
\* the instance would take alone from the state it sees. When an instance
\* is past its Runner its results are those of its own plan, one per step.
C30_InstancesIsolated ==
    /\ [](\A i \in Instances :
            pc[i] \in {"reporter", "END", "raised"} =>
                /\ ViewOf(state, i)["current_step"] = Len(state[i]["plan"])
                /\ DOMAIN ViewOf(state, i)["tool_outputs"] =
                       {StepKey(j, state[i]["plan"][j + 1]) :
                            j \in 0..(Len(state[i]["plan"]) - 1)}
                /\ \A j \in 0..(Len(state[i]["plan"]) - 1) :
                       LET r == ViewOf(state, i)["tool_outputs"][
                                    StepKey(j, state[i]["plan"][j + 1])]
                       IN \A f \in DOMAIN r.d : r.d[f].src = j)
    /\ [][\E i \in Instances :
             /\ ViewOf(state', Other(i)) = ViewOf(state, Other(i))
             /\ pc'[Other(i)] = pc[Other(i)]
             /\ \/ /\ pc[i] = "runner"
                   /\ \E outcome \in LongOutcomes(state[i]["current_step"]) :
                         ViewOf(state', i) =
                             ApplyWrites(ViewOf(state, i),
                                         runner_node(ViewOf(state, i), outcome, FALSE).state)
                \/ /\ pc[i] = "reporter"
                   /\ ViewOf(state', i)["tool_outputs"] = ViewOf(state, i)["tool_outputs"]]_vars

\* C30 witness: both instances ran the same two-step plan to the end, one
\* with two failed steps and the other with two successful ones.
C30_Witness ==
    /\ pc = [i \in Instances |-> "END"]
    /\ state["a"]["plan"] = state["b"]["plan"]
    /\ Len(state["a"]["plan"]) = 2
    /\ \A k \in DOMAIN ViewOf(state, "a")["tool_outputs"] :
           HasError(ViewOf(state, "a")["tool_outputs"][k])
    /\ \A k \in DOMAIN ViewOf(state, "b")["tool_outputs"] :
           ~HasError(ViewOf(state, "b")["tool_outputs"][k])
    /\ DOMAIN ViewOf(state, "b")["tool_outputs"] # {}

\* C31: a plan that names a tool outside the known registry is never marked
\* approved by a review. (The forced approval of the routing function does
\* not reach the state, so every approval in the state is a review's.)
C31_UnknownToolRejected ==
    state["is_plan_approved"] =>
        \A n \in 1..Len(plan_now) : plan_now[n] \in KnownTools

\* ======================================================================
\* The MOF database search tool
\* ======================================================================
\* Texts are sequences of code points. The database, in its order; the pore
\* volume is held in hundredths.
SAMPLE_MOF_DB == <<
    [mof_name |-> \* "HKUST-1"
         <<72, 75, 85, 83, 84, 45, 49>>,
     formula |-> \* "Cu3(BTC)2"
         <<67, 117, 51, 40, 66, 84, 67, 41, 50>>,
     description |-> \* "Copper-based MOF with high surface area"
         <<67, 111, 112, 112, 101, 114, 45, 98, 97, 115, 101, 100, 32, 77,
         79, 70, 32, 119, 105, 116, 104, 32, 104, 105, 103, 104, 32, 115,
         117, 114, 102, 97, 99, 101, 32, 97, 114, 101, 97>>,
     tags |-> \* "copper", "high surface area", "paddle-wheel"
         <<<<99, 111, 112, 112, 101, 114>>,
           <<104, 105, 103, 104, 32, 115, 117, 114, 102, 97, 99, 101, 32,
           97, 114, 101, 97>>,
           <<112, 97, 100, 100, 108, 101, 45, 119, 104, 101, 101, 108>>>>,
     cif_filename |-> \* "HKUST-1.cif"
         <<72, 75, 85, 83, 84, 45, 49, 46, 99, 105, 102>>,
     properties |-> [surface_area_m2g |-> 1850, pore_volume_cm3g_x100 |-> 75]],
    [mof_name |-> \* "MOF-5"
         <<77, 79, 70, 45, 53>>,
     formula |-> \* "Zn4O(BDC)3"
         <<90, 110, 52, 79, 40, 66, 68, 67, 41, 51>>,
     description |-> \* "Zinc-based MOF, one of the first MOFs discovered"
         <<90, 105, 110, 99, 45, 98, 97, 115, 101, 100, 32, 77, 79, 70, 44,
         32, 111, 110, 101, 32, 111, 102, 32, 116, 104, 101, 32, 102, 105,
         114, 115, 116, 32, 77, 79, 70, 115, 32, 100, 105, 115, 99, 111,
         118, 101, 114, 101, 100>>,
     tags |-> \* "zinc", "BDC", "cubic"
         <<<<122, 105, 110, 99>>,
           <<66, 68, 67>>,
           <<99, 117, 98, 105, 99>>>>,
     cif_filename |-> \* "MOF-5.cif"
         <<77, 79, 70, 45, 53, 46, 99, 105, 102>>,
     properties |-> [surface_area_m2g |-> 3800, pore_volume_cm3g_x100 |-> 155]],
    [mof_name |-> \* "UiO-66"
         <<85, 105, 79, 45, 54, 54>>,
     formula |-> \* "Zr6O4(OH)4(BDC)6"
         <<90, 114, 54, 79, 52, 40, 79, 72, 41, 52, 40, 66, 68, 67, 41, 54>>,
     description |-> \* "Zirconium-based MOF with exceptional stability"
         <<90, 105, 114, 99, 111, 110, 105, 117, 109, 45, 98, 97, 115, 101,
         100, 32, 77, 79, 70, 32, 119, 105, 116, 104, 32, 101, 120, 99, 101,
         112, 116, 105, 111, 110, 97, 108, 32, 115, 116, 97, 98, 105, 108,
         105, 116, 121>>,
     tags |-> \* "zirconium", "stable", "water-stable"
         <<<<122, 105, 114, 99, 111, 110, 105, 117, 109>>,
           <<115, 116, 97, 98, 108, 101>>,
           <<119, 97, 116, 101, 114, 45, 115, 116, 97, 98, 108, 101>>>>,
     cif_filename |-> \* "UiO-66.cif"
         <<85, 105, 79, 45, 54, 54, 46, 99, 105, 102>>,
     properties |-> [surface_area_m2g |-> 1187, pore_volume_cm3g_x100 |-> 44]],
    [mof_name |-> \* "MIL-101"
         <<77, 73, 76, 45, 49, 48, 49>>,
     formula |-> \* "Cr3F(H2O)2O[(O2C)-C6H4-(CO2)]3"
         <<67, 114, 51, 70, 40, 72, 50, 79, 41, 50, 79, 91, 40, 79, 50, 67,
         41, 45, 67, 54, 72, 52, 45, 40, 67, 79, 50, 41, 93, 51>>,
     description |-> \* "Chromium-based MOF with very high surface area"
         <<67, 104, 114, 111, 109, 105, 117, 109, 45, 98, 97, 115, 101, 100,
         32, 77, 79, 70, 32, 119, 105, 116, 104, 32, 118, 101, 114, 121, 32,
         104, 105, 103, 104, 32, 115, 117, 114, 102, 97, 99, 101, 32, 97,
         114, 101, 97>>,
     tags |-> \* "chromium", "very high surface area", "mesoporous"
         <<<<99, 104, 114, 111, 109, 105, 117, 109>>,
           <<118, 101, 114, 121, 32, 104, 105, 103, 104, 32, 115, 117, 114,
           102, 97, 99, 101, 32, 97, 114, 101, 97>>,
           <<109, 101, 115, 111, 112, 111, 114, 111, 117, 115>>>>,
     cif_filename |-> \* "MIL-101.cif"
         <<77, 73, 76, 45, 49, 48, 49, 46, 99, 105, 102>>,
     properties |-> [surface_area_m2g |-> 4100, pore_volume_cm3g_x100 |-> 215]]
    >>

\* str.lower() of an ASCII text
Lower(t) == [i \in 1..Len(t) |-> IF t[i] >= 65 /\ t[i] <= 90 THEN t[i] + 32 ELSE t[i]]

\* sub in t
Contains(sub, t) ==
    \E k \in 0..(Len(t) - Len(sub)) : \A i \in 1..Len(sub) : t[k + i] = sub[i]

\* Mutant of EntryMatches: the tags are not searched.
EntryMatchesNoTags(query_lower, mof) ==
    \/ Contains(query_lower, Lower(mof.mof_name))
    \/ Contains(query_lower, Lower(mof.formula))
    \/ Contains(query_lower, Lower(mof.description))

\* The condition of the search loop on one entry.
EntryMatches(query_lower, mof) ==
    \/ Contains(query_lower, Lower(mof.mof_name))
    \/ Contains(query_lower, Lower(mof.formula))
    \/ Contains(query_lower, Lower(mof.description))
    \/ \E n \in 1..Len(mof.tags) : Contains(query_lower, Lower(mof.tags[n]))

\* str(get_data_dir() / name)
DataPath(name) == <<100, 97, 116, 97, 47>> \o name

\* The search loop from entry n of the database on; files are the names
\* present in the data directory. [result, files]
RECURSIVE SearchFrom(_, _, _)
SearchFrom(n, query_string, files) ==
    IF n > Len(SAMPLE_MOF_DB)
    THEN [result |->
              [error |-> \* "No MOF found matching query: "
                   <<78, 111, 32, 77, 79, 70, 32, 102, 111, 117, 110, 100,
                   32, 109, 97, 116, 99, 104, 105, 110, 103, 32, 113, 117,
                   101, 114, 121, 58, 32>>
                   \o query_string,
               suggestion |->
                   \* "Try queries like: 'copper', 'zinc', 'HKUST-1', 'MOF-5',
                   \*  'high surface area'"
                   <<84, 114, 121, 32, 113, 117, 101, 114, 105, 101, 115,
                   32, 108, 105, 107, 101, 58, 32, 39, 99, 111, 112, 112,
                   101, 114, 39, 44, 32, 39, 122, 105, 110, 99, 39, 44, 32,
                   39, 72, 75, 85, 83, 84, 45, 49, 39, 44, 32, 39, 77, 79,
                   70, 45, 53, 39, 44, 32, 39, 104, 105, 103, 104, 32, 115,
                   117, 114, 102, 97, 99, 101, 32, 97, 114, 101, 97, 39>>],
          files |-> files]
    ELSE LET mof == SAMPLE_MOF_DB[n]
         IN IF EntryMatches(Lower(query_string), mof)
            THEN [result |->
                      [mof_name |-> mof.mof_name,
                       formula |-> mof.formula,
                       description |-> mof.description,
                       cif_filepath |-> DataPath(mof.cif_filename),
                       properties |-> mof.properties],
                  files |-> files \cup {mof.cif_filename}]
            ELSE SearchFrom(n + 1, query_string, files)

search_mof_db(query_string, files) == SearchFrom(1, query_string, files)

\* Letters the queries are written in: c u b z r C x
SearchAlphabet == {99, 117, 98, 122, 114, 67, 120}
SearchQueries == UNION {[1..n -> SearchAlphabet] : n \in 0..MaxQueryLen}

\* A query is about to be searched, with or without CIF files already in
\* the data directory. In this specification state holds the query and the
\* files, and kwargs the result of the tool.
InitSearch ==
    /\ \E q \in SearchQueries,
          fs \in {{}, {SAMPLE_MOF_DB[n].cif_filename : n \in 1..Len(SAMPLE_MOF_DB)}} :
        state = [query_string |-> q, files |-> fs]
    /\ pc = "search"
    /\ supersteps = 0
    /\ raised = "none"
    /\ calls = <<>>
    /\ kwargs = [tool |-> "", args |-> NoFields]
    /\ planner_calls = 0
    /\ unready = FALSE
    /\ rejections = 0
    /\ runner_calls = 0

Search ==
    /\ pc = "search"
    /\ LET r == search_mof_db(state["query_string"], state["files"])
       IN /\ kwargs' = [tool |-> "search_mof_db", args |-> r.result]
          /\ state' = [state EXCEPT !["files"] = r.files]
    /\ pc' = "searched"
    /\ UNCHANGED <<supersteps, raised, calls, planner_calls, unready, rejections,
                   runner_calls>>

NextSearch == Search

SearchSpec == InitSearch /\ [][NextSearch]_vars

\* C32: the result of search_mof_db is that of the first entry, in database
\* order, one of whose name, formula, description or tags contains the
\* lower-cased query (letter case apart), with its mof_name and the path of
\* its CIF file, which then exists; when no entry has the query, the result
\* has an error field and no cif_filepath.
C32_FirstMatch ==
    pc = "searched" =>
        LET q == Lower(state["query_string"])
            has(n, f) == Contains(q, Lower(SAMPLE_MOF_DB[n][f]))
            hits == {n \in 1..Len(SAMPLE_MOF_DB) :
                        \/ has(n, "mof_name") \/ has(n, "formula")
                        \/ has(n, "description")
                        \/ \E t \in 1..Len(SAMPLE_MOF_DB[n].tags) :
                               Contains(q, Lower(SAMPLE_MOF_DB[n].tags[t]))}
            result == kwargs.args
        IN IF hits = {}
           THEN "error" \in DOMAIN result /\ "cif_filepath" \notin DOMAIN result
           ELSE LET first == CHOOSE n \in hits : \A m \in hits : n <= m
                IN /\ "error" \notin DOMAIN result
                   /\ result["mof_name"] = SAMPLE_MOF_DB[first].mof_name
                   /\ result["cif_filepath"] = DataPath(SAMPLE_MOF_DB[first].cif_filename)
                   /\ SAMPLE_MOF_DB[first].cif_filename \in state["files"]

\* C32 witness: the query "cub" was searched with an empty data directory
\* and found MOF-5, the second entry, through its tag "cubic".
C32_Witness ==
    /\ pc = "searched"
    /\ state["query_string"] = <<99, 117, 98>>
    /\ kwargs.args["mof_name"] = SAMPLE_MOF_DB[2].mof_name
    /\ state["files"] = {SAMPLE_MOF_DB[2].cif_filename}

\* C33: after k consecutive rejections, 1 <= k <= RejectionCeiling, the
\* rejection count the next Planner invocation and the next routing decision
\* read from the workflow state is k.
C33_CountKept ==
    (pc \in {"analyzer", "supervisor"} /\ rejections >= 1
        /\ rejections <= RejectionCeiling) =>
        Get(state, "_rejection_count", 0) = rejections

ProcessInputs(i) ==
    {McpResult(e, c, form, v) :
        e \in BOOLEAN, c \in BOOLEAN, form \in {"json", "fenced", "fence", "raw"},
        v \in ResolverShapes(i)}

\* A response is about to be processed. In this specification state holds
\* the response, the tool name and the step index, and kwargs the result.
InitProcess ==
    /\ \E i \in 0..MaxOutputs, tool_name \in ToolNames :
        \E result \in ProcessInputs(i) :
            state = [result |-> result, tool_name |-> tool_name, i |-> i]
    /\ pc = "process"
    /\ supersteps = 0
    /\ raised = "none"
    /\ calls = <<>>
    /\ kwargs = [tool |-> "", args |-> NoFields]
    /\ planner_calls = 0
    /\ unready = FALSE
    /\ rejections = 0
    /\ runner_calls = 0

Process ==
    /\ pc = "process"
    /\ kwargs' = [tool |-> state["tool_name"],
                  args |-> _process_mcp_result(state["result"], state["tool_name"],
                                               state["i"])]
    /\ pc' = "processed"
    /\ UNCHANGED <<state, supersteps, raised, calls, planner_calls, unready,
                   rejections, runner_calls>>

NextProcess == Process

ProcessSpec == InitProcess /\ [][NextProcess]_vars

\* C35: for a response that is no error and has content, the stored result
\* is the JSON value inside the fence when the text is fence-wrapped JSON,
\* the JSON value of the text when the text is JSON, and otherwise the text
\* itself, which is neither a dict nor a list and carries no error.
C35_ParseOrder ==
    (pc = "processed" /\ ~state["result"].is_error /\ state["result"].has_content) =>
        IF state["result"].form \in {"fenced", "fence", "json"}
        THEN kwargs.args = state["result"].value
        ELSE kwargs.args.kind = "other" /\ "error" \notin DOMAIN kwargs.args.d

\* ======================================================================
\* The Planner's reading of the planning model's text
\* ======================================================================
\* A JSON value, or the lack of one: "object" (status "" and no plan: the
\* empty object {}), "list", "null"; "invalid" is a candidate text that does
\* not parse and "none" the absence of a candidate.
Json(kind, status, plan) == [kind |-> kind, status |-> status, plan |-> plan]
NoJson == Json("none", "", <<>>)
InvalidJson == Json("invalid", "", <<>>)
JsonObjects ==
    {Json("object", st, <<>>) : st \in {"", "need_context", "out_of_scope"}}
    \cup {Json("object", "ready", p) : p \in PlanSet}
IsValue(j) == j.kind \in {"object", "list", "null"}
\* bool(parsed): None, null and {} are falsy.
JsonTruthy(j) == j.kind = "list" \/ (j.kind = "object" /\ j.status # "")

\* A text of the planning model, by what the three strategies find in it:
\* fence is the content of the first ```json {...} ``` block, span the text
\* from the first '{' to the last '}', whole the stripped text.  A fenced
\* block has braces, so a text with a fence has a span; a text that is an
\* object as a whole is its own span.  (A fence inside a text that parses as
\* a whole sits in a string of it, as in {"status": "ready", "plan": [...],
\* "note": "```json {} ```"}.)
Contents ==
    {c \in [fence : {NoJson, InvalidJson} \cup JsonObjects,
            span : {NoJson, InvalidJson} \cup JsonObjects,
            whole : {InvalidJson, Json("list", "", <<>>), Json("null", "", <<>>)}
                    \cup JsonObjects] :
        /\ c.fence # NoJson => c.span # NoJson
        /\ c.whole.kind = "object" => c.span = c.whole
        /\ c.whole.kind = "null" => c.span = NoJson
        /\ c.whole.kind = "list" => c.fence = NoJson}

\* parsed after the three strategies
ExtractJson(content) ==
    LET parsed1 == IF content.fence # NoJson /\ IsValue(content.fence)
                   THEN content.fence ELSE NoJson
        parsed2 == IF ~JsonTruthy(parsed1) /\ content.span # NoJson
                      /\ IsValue(content.span)
                   THEN content.span ELSE parsed1
        parsed3 == IF ~JsonTruthy(parsed2) /\ IsValue(content.whole)
                   THEN content.whole ELSE parsed2
    IN parsed3

\* The planning model has answered. In this specification state holds the
\* text and kwargs the value extracted from it.
InitExtract ==
    /\ \E content \in Contents : state = [content |-> content]
    /\ pc = "extract"
    /\ supersteps = 0
    /\ raised = "none"
    /\ calls = <<>>
    /\ kwargs = [tool |-> "", args |-> NoFields]
    /\ planner_calls = 0
    /\ unready = FALSE
    /\ rejections = 0
    /\ runner_calls = 0

Extract ==
    /\ pc = "extract"
    /\ kwargs' = [tool |-> "", args |-> ExtractJson(state["content"])]
    /\ pc' = "extracted"
    /\ UNCHANGED <<state, supersteps, raised, calls, planner_calls, unready,
                   rejections, runner_calls>>

NextExtract == Extract

ExtractSpec == InitExtract /\ [][NextExtract]_vars

\* C36: the value the Planner uses is that of the first strategy whose
\* candidate parses, in the order fenced block, brace span, whole text; the
\* value of a fenced block that parses is used whatever the brace span would
\* parse to.
C36_FirstStrategyWins ==
    pc = "extracted" =>
        LET content == state["content"]
        IN kwargs.args =
               IF IsValue(content.fence) THEN content.fence
               ELSE IF IsValue(content.span) THEN content.span
               ELSE IF IsValue(content.whole) THEN content.whole
               ELSE NoJson

\* C37: in every state tool_outputs has exactly current_step entries, under
\* the keys "step_i_" + plan[i] of the steps 0 <= i < current_step, whatever
\* the steps returned (an empty result is an entry like any other).
C37_OneEntryPerStep ==
    /\ Cardinality(DOMAIN outputs) = cursor
    /\ \A i \in 0..(cursor - 1) : StepKey(i, plan_now[i + 1]) \in DOMAIN outputs
    /\ \A k \in DOMAIN outputs :
           \E i \in 0..(cursor - 1) : k = StepKey(i, plan_now[i + 1])

\* C37 witness: two steps of the same tool have run; the tool returned empty
\* content for the first and atoms for the second.
C37_Witness ==
    /\ cursor = 2
    /\ plan_now[1] = plan_now[2]
    /\ ResultOf(0) = Output("dict", NoFields)
    /\ ResultOf(1).d # NoFields

\* C38: whenever the Reporter is due the plan has at least one step and
\* tool_outputs has one entry per step of it; no run ends with the message
\* of the Reporter's early return.
C38_ReporterHasResults ==
    /\ pc = "reporter" =>
           /\ Len(plan_now) >= 1
           /\ Cardinality(DOMAIN outputs) = Len(plan_now)
    /\ state["messages"] # <<>> =>
           LastMessage.content #
               "No results to report - workflow did not complete successfully."

\* C38 witness: the Reporter is due after two steps whose tool returned
\* empty content: the entries are empty, tool_outputs is not.
C38_Witness ==
    /\ pc = "reporter"
    /\ Len(plan_now) = 2
    /\ \A k \in DOMAIN outputs : outputs[k] = Output("dict", NoFields)

\* C39: the tool names of the Planner's prompt, those the Reviewer's prompt
\* lists as available and those the resolver has a rule for are one set; so
\* every step of a plan made of the Planner's names is available to the
\* Reviewer and known to the resolver.
C39_OneRegistry ==
    /\ KnownTools = ReviewerTools
    /\ KnownTools = ResolverTools
    /\ \A n \in 1..Len(plan_now) :
           plan_now[n] \in KnownTools =>
               plan_now[n] \in ReviewerTools /\ plan_now[n] \in ResolverTools

\* ======================================================================
\* The conversion of a request body
\* ======================================================================
\* A field a request body may carry or not.
OptionalField(key, present, value) == IF present THEN key :> value ELSE NoFields

\* Request bodies with any subset of the workflow fields, each set to a
\* value other than the default.
ConvertInputs ==
    {("messages" :> m)
     @@ OptionalField("plan", hp, p)
     @@ OptionalField("current_step", hc, c)
     @@ OptionalField("tool_outputs", ho,
                      StepKey(0, "search_mofs")
                          :> Output("dict", [cif_filepath |-> Val(0, "/data/found.cif")]))
     @@ OptionalField("review_feedback", hf, "F1")
     @@ OptionalField("is_plan_approved", ha, TRUE)
     @@ OptionalField("_rejection_count", hr, 5) :
        m \in {<<>>, <<[role |-> "user", content |-> "copper"]>>,
               <<[role |-> "assistant", content |-> "hello"]>>},
        p \in PlanSet \ {<<>>}, c \in 1..MaxPlanLen,
        hp \in BOOLEAN, hc \in BOOLEAN, ho \in BOOLEAN, hf \in BOOLEAN,
        ha \in BOOLEAN, hr \in BOOLEAN}

\* A request body has arrived. In this specification state holds the body
\* and, once converted, the dict convert_input returns and the channels the
\* graph starts from.
InitConvert ==
    /\ \E input_data \in ConvertInputs : state = [input |-> input_data]
    /\ pc = "convert"
    /\ supersteps = 0
    /\ raised = "none"
    /\ calls = <<>>
    /\ kwargs = [tool |-> "", args |-> NoFields]
    /\ planner_calls = 0
    /\ unready = FALSE
    /\ rejections = 0
    /\ runner_calls = 0

Convert ==
    /\ pc = "convert"
    /\ state' = [input |-> state["input"],
                 result |-> convert_input(state["input"]),
                 channels |-> InitialState(state["input"])]
    /\ pc' = "converted"
    /\ UNCHANGED <<supersteps, raised, calls, kwargs, planner_calls, unready,
                   rejections, runner_calls>>

NextConvert == Convert

ConvertSpec == InitConvert /\ [][NextConvert]_vars

\* C40: whatever fields the request carries, the dict convert_input returns
\* and the channels the workflow starts from have plan = [], current_step =
\* 0, tool_outputs = {}, review_feedback = "", is_plan_approved = false, and
\* the rejection count is 0.
C40_RequestCannotPreset ==
    pc = "converted" =>
        /\ \A s \in {state["result"], state["channels"]} :
               /\ s["plan"] = <<>>
               /\ s["current_step"] = 0
               /\ s["tool_outputs"] = NoFields
               /\ s["review_feedback"] = ""
               /\ s["is_plan_approved"] = FALSE
               /\ Get(s, "_rejection_count", 0) = 0
        /\ DOMAIN state["channels"] = StateKeys

\* C40 witness: a request that carried a plan, a cursor, results, feedback,
\* an approval and a rejection count has been converted.
C40_Witness ==
    /\ pc = "converted"
    /\ {"plan", "current_step", "tool_outputs", "review_feedback",
        "is_plan_approved", "_rejection_count"} \subseteq DOMAIN state["input"]
    /\ state["input"]["is_plan_approved"]
    /\ state["channels"]["messages"] # <<>>

====
